---- MODULE Spec2Model ----
(***************************************************************************)
(* Forward kinematics and Jacobians of tf_robot_learning.kinematic:        *)
(* Frame / Twist algebra (frame.py), Chain and ChainDict (chain.py).       *)
(*                                                                         *)
(* Numeric domain.  Poses are taken in the planar subgroup of SE(3) made   *)
(* of rotations about z by whole quarter turns and integer translations    *)
(* in the xy-plane: m is the number of quarter turns (0..3), p = <<x, y>>. *)
(* Every formula of frame.py restricted to that subgroup is exact integer  *)
(* arithmetic (the z components are identically 0 and are dropped).        *)
(* A tensor's rank is kept as the flag `batch` (ndims of the unbatched     *)
(* value + 1); batched operations act pointwise on the batch axis, so one  *)
(* representative row is carried.                                          *)
(***************************************************************************)
EXTENDS Integers, Sequences, FiniteSets, TLC

VARIABLES chains, cache, call, pc, st, result

vars == <<chains, cache, call, pc, st, result>>

\* ---------------------------------------------------------------- bounds
MaxSegm == 3
MaxQVal == 1
MaxChains == 2
MaxSegmDict == 2
MaxMass == 1

SeqsUpTo(S, n) ==
  UNION {[1..k -> S] : k \in 0..n}

QVals == 0..MaxQVal

\* ------------------------------------------------------- vectors, tensors
VAdd(u, v) ==
  <<u[1] + v[1], u[2] + v[2]>>

VSub(u, v) ==
  <<u[1] - v[1], u[2] - v[2]>>

VScale(k, v) ==
  <<k * v[1], k * v[2]>>

\* tf_utils.matvecmul for a quarter-turn rotation matrix m about z
matvecmul(m, v) ==
  CASE m = 0 -> v
    [] m = 1 -> <<-v[2], v[1]>>
    [] m = 2 -> <<-v[1], -v[2]>>
    [] m = 3 -> <<v[2], -v[1]>>

\* tf_utils.matmatmul for two quarter-turn rotation matrices about z
matmatmul(a, b) ==
  (a + b) % 4

\* tf1.cross((0,0,w), (vx,vy,0)) = (-w*vy, w*vx, 0)
cross(w, v) ==
  <<-(w * v[2]), w * v[1]>>

\* entries of the rotation matrix of m quarter turns, row-major [[c,-s],[s,c]]
RotMat(m) ==
  CASE m = 0 -> <<1, 0, 0, 1>>
    [] m = 1 -> <<0, -1, 1, 0>>
    [] m = 2 -> <<-1, 0, 0, -1>>
    [] m = 3 -> <<0, 1, -1, 0>>

Transpose2(a) ==
  <<a[1], a[3], a[2], a[4]>>

\* ------------------------------------------------------ call results
NoRet ==
  [t |-> "none"]

Ok(v) ==
  [status |-> "ok", err |-> "", ret |-> v]

Raise(e) ==
  [status |-> "raise", err |-> e, ret |-> NoRet]

\* ---------------------------------------------------------------- Frame
FrameOf(p, m, batch) ==
  [p |-> p, m |-> m, batch |-> batch]

\* Frame(): p = zeros(3), m = eye(3)
Frame0 ==
  FrameOf(<<0, 0>>, 0, FALSE)

\* Frame.__mul__(Frame): Frame(p = m*other.p + p, m = m*other.m)
Frame_mul(A, B) ==
  FrameOf(VAdd(matvecmul(A.m, B.p), A.p), matmatmul(A.m, B.m), A.batch \/ B.batch)

\* Frame.p as a tensor
Frame_p(f) ==
  [v |-> f.p, batch |-> f.batch]

\* Frame.xm: concat(p, reshape(m))
Frame_xm(f) ==
  [v |-> f.p \o RotMat(f.m), batch |-> f.batch]

\* Frame.xmv: concat(p, reshape(transpose(m)))
Frame_xmv(f) ==
  [v |-> f.p \o Transpose2(RotMat(f.m)), batch |-> f.batch]

\* ---------------------------------------------------------------- Twist
TwistOf(vel, rot, batch) ==
  [vel |-> vel, rot |-> rot, batch |-> batch]

\* Twist.ref_point(v): vel + cross(rot, v), rot unchanged.  The three rank
\* branches broadcast the lower-rank operand; the result is batched when
\* either operand is.
ref_point(t, v) ==
  TwistOf(VAdd(t.vel, cross(t.rot, v.v)), t.rot, t.batch \/ v.batch)

\* Twist.__rmul__(matrix): rotate vel and rot (rot is along z: unchanged)
Twist_rmul(m, mbatch, t) ==
  TwistOf(matvecmul(m, t.vel), t.rot, t.batch \/ mbatch)

\* Twist.dx as a tensor: concat(vel, rot)
Twist_dx(t) ==
  [v |-> t.vel \o <<t.rot>>, batch |-> t.batch]

\* Twist.dx_mat(m, layout): concat(vel, flatten(angular_vel_tensor(rot) * m)),
\* flattened transposed for layout xmv
dx_mat(t, m, layout) ==
  LET r == RotMat(m)
      dm == <<-(t.rot * r[3]), -(t.rot * r[4]), t.rot * r[1], t.rot * r[2]>>
  IN [v |-> t.vel \o (IF layout = "xmv" THEN Transpose2(dm) ELSE dm),
      batch |-> t.batch]

\* ------------------------------------------------------- Segment, Joint
JointTypes == {"NoneT", "RotZ"}

Actuated(seg) ==
  seg.joint # "NoneT"

Link(mass) ==
  [has |-> TRUE, mass |-> mass]

NoLink ==
  [has |-> FALSE, mass |-> 0]

Segment(joint, child_name, link) ==
  [joint |-> joint, child_name |-> child_name, link |-> link]

\* a joint-vector component: value and whether it is a [batch] tensor
Scalar(x) ==
  [v |-> x, batch |-> FALSE]

\* Joint.pose(q): rotation by q about the joint axis; Frame() for NoneT
Joint_pose(seg, qc) ==
  IF Actuated(seg) THEN FrameOf(<<0, 0>>, qc.v % 4, qc.batch) ELSE Frame0

\* Segment.f_tip: one unit along the local x axis
f_tip ==
  FrameOf(<<1, 0>>, 0, FALSE)

\* Segment.pose(q) = joint.pose(q) * f_tip
Segment_pose(seg, qc) ==
  Frame_mul(Joint_pose(seg, qc), f_tip)

\* Segment.pose_0 = pose(0.).fix_it()
Segment_pose_0(seg) ==
  Segment_pose(seg, Scalar(0))

\* Joint.twist(qdot): unit angular velocity about the joint axis
Joint_twist(seg, qdot) ==
  TwistOf(<<0, 0>>, IF Actuated(seg) THEN qdot ELSE 0, FALSE)

\* Segment.twist(q, qdot) = joint.twist(qdot).ref_point(joint.pose(q).m * f_tip.p)
Segment_twist(seg, qc, qdot) ==
  ref_point(Joint_twist(seg, qdot),
            [v |-> matvecmul(Joint_pose(seg, qc).m, f_tip.p), batch |-> qc.batch])

\* Link.frame: segment frame to link frame
Link_frame ==
  FrameOf(<<0, 1>>, 0, FALSE)

\* ------------------------------------------------------------- layouts
\* FkLayout members, and one tag outside the enumeration
Layouts == {"x", "xq", "xm", "xmv", "f", "other"}

\* ---------------------------------------------------------- stack_batch
Tensor(batch, rows) ==
  [t |-> "tensor", batch |-> batch, rows |-> rows, frames |-> <<>>]

stack_batch(vecs) ==
  IF Len(vecs) = 0
  THEN Raise("IndexError")                          \* vecs[0] of an empty list
  ELSE LET n == Len(vecs)
           v0 == IF ~vecs[1].batch /\ vecs[n].batch \* first frame is not batch
                 THEN [vecs[1] EXCEPT !.batch = TRUE]
                 ELSE vecs[1]
           vs == [vecs EXCEPT ![1] = v0]
       IN IF \E k \in 1..n : vs[k].batch # vs[n].batch
          THEN Raise("ShapeError")                  \* tf.stack of unequal shapes
          ELSE Ok(Tensor(vs[n].batch, [k \in 1..n |-> vs[k].v]))

\* --------------------------------------------------------- return_frame
\* p is [isList, items]: a list of Frames, or one Frame as items[1]
FrameList(fs) ==
  [isList |-> TRUE, items |-> fs]

OneFrame(f) ==
  [isList |-> FALSE, items |-> <<f>>]

Vector(x) ==
  [t |-> "vector", batch |-> x.batch, rows |-> <<x.v>>, frames |-> <<>>]

return_frame(p, layout) ==
  LET n == Len(p.items) IN
  CASE layout = "x" ->
         IF p.isList THEN stack_batch([k \in 1..n |-> Frame_p(p.items[k])])
         ELSE Ok(Vector(Frame_p(p.items[1])))
    [] layout = "xq" ->
         IF p.isList /\ n = 0 THEN stack_batch(<<>>)
         ELSE Raise("NotImplementedError")          \* Frame.xq raises
    [] layout = "xm" ->
         IF p.isList THEN stack_batch([k \in 1..n |-> Frame_xm(p.items[k])])
         ELSE Ok(Vector(Frame_xm(p.items[1])))
    [] layout = "xmv" ->
         IF p.isList THEN stack_batch([k \in 1..n |-> Frame_xmv(p.items[k])])
         ELSE Ok(Vector(Frame_xmv(p.items[1])))
    [] layout = "f" ->
         Ok([t |-> "frames", batch |-> FALSE, rows |-> <<>>, frames |-> p.items])
    [] OTHER ->
         Ok([t |-> "None", batch |-> FALSE, rows |-> <<>>, frames |-> <<>>])

\* ---------------------------------------------------------------- Chain
\* Chain.nb_joint: number of segments whose joint type is not NoneT
nb_joint(segs) ==
  Cardinality({k \in 1..Len(segs) : Actuated(segs[k])})

\* [seg.link.mass for seg in segments if seg.link is not None]
RECURSIVE masses(_)
masses(segs) ==
  IF Len(segs) = 0 THEN <<>>
  ELSE LET rest == masses(SubSeq(segs, 1, Len(segs) - 1))
           seg == segs[Len(segs)]
       IN IF seg.link.has THEN Append(rest, seg.link.mass) ELSE rest

RECURSIVE SumSeq(_)
SumSeq(s) ==
  IF Len(s) = 0 THEN 0 ELSE s[1] + SumSeq(Tail(s))

\* Chain.mass: sum of the link masses
mass(segs) ==
  SumSeq(masses(segs))

\* A call: the operation and its arguments.
\*   kind   "vec"   q is a tensor of shape [nb_joint]
\*          "batch" q is a tensor of shape [batch, nb_joint]
\*          "list"  q is a Python list of [batch] tensors
\*   base   the floating_base argument: None, or a Frame
Call(op, ci, q, kind, layout, base, n, get_links, name) ==
  [op |-> op, ci |-> ci, q |-> q, kind |-> kind, layout |-> layout,
   base |-> base, n |-> n, get_links |-> get_links, name |-> name]

\* floating_base: None, or a Frame (a (p, m) tuple builds the same Frame)
NoBase ==
  [none |-> TRUE, f |-> Frame0]

GivenBase(f) ==
  [none |-> FALSE, f |-> f]

FloatingBases ==
  {NoBase, GivenBase(FrameOf(<<0, 1>>, 1, FALSE))}

\* Chain.xs lines 305-312, Chain.jacobian lines 383-390
BaseFrame(fb) ==
  IF fb.none THEN Frame0 ELSE fb.f

NoCall ==
  Call("none", 0, <<>>, "vec", "xm", NoBase, 0, FALSE, "")

QKinds == {"vec", "batch", "list"}

\* q[j] (q[:, j] for a batch): the j-th joint value, 0-based
QComp(c, j) ==
  [v |-> c.q[j + 1], batch |-> c.kind # "vec"]

\* The state of a loop over the segments.  i, j, p, links, jac, T_tmp, total
\* are the locals of the code; reads and born record, for each segment
\* processed, the index of q it read (-1: none) and, for each Jacobian
\* column, the twist as first appended and the pose it was appended at.
\* idx_chain and q_chains are the locals of ChainDict.xs / ChainDict.jacobian.
St0 ==
  [i |-> 0, j |-> 0, p |-> <<>>, links |-> <<>>, jac |-> <<>>,
   T_tmp |-> Frame0, total |-> Frame0, reads |-> <<>>, born |-> <<>>, err |-> "",
   idx_chain |-> <<>>, q_chains |-> <<>>]

Last(s) ==
  s[Len(s)]

\* Chain.xs, lines 305-315: p = [base], j = 0, links = [p[0]]
xs_init(c) ==
  [St0 EXCEPT !.p = <<BaseFrame(c.base)>>, !.links = <<BaseFrame(c.base)>>]

\* xs_body with the joint index advanced on every segment, Fixed included
xs_body_j_on_fixed(segs, c, s) ==
  LET seg == segs[s.i + 1] IN
  IF Actuated(seg)
  THEN IF s.j >= Len(c.q)
       THEN [s EXCEPT !.err = "IndexError"]
       ELSE LET np == Frame_mul(Last(s.p), Segment_pose(seg, QComp(c, s.j)))
            IN [s EXCEPT !.p = Append(@, np),
                         !.links = IF c.get_links /\ seg.link.has
                                   THEN Append(@, Frame_mul(np, Link_frame)) ELSE @,
                         !.j = @ + 1,
                         !.i = @ + 1,
                         !.reads = Append(@, s.j)]
  ELSE LET np == Frame_mul(Last(s.p), Segment_pose(seg, Scalar(0)))
       IN [s EXCEPT !.p = Append(@, np),
                    !.links = IF c.get_links /\ seg.link.has
                              THEN Append(@, Frame_mul(np, Link_frame)) ELSE @,
                    !.j = @ + 1,
                    !.i = @ + 1,
                    !.reads = Append(@, -1)]

\* Chain.xs, lines 317-333: one iteration of the loop over the segments
xs_body(segs, c, s) ==
  LET seg == segs[s.i + 1] IN
  IF Actuated(seg)
  THEN IF s.j >= Len(c.q)
       THEN [s EXCEPT !.err = "IndexError"]
       ELSE LET np == Frame_mul(Last(s.p), Segment_pose(seg, QComp(c, s.j)))
            IN [s EXCEPT !.p = Append(@, np),
                         !.links = IF c.get_links /\ seg.link.has
                                   THEN Append(@, Frame_mul(np, Link_frame)) ELSE @,
                         !.j = @ + 1,
                         !.i = @ + 1,
                         !.reads = Append(@, s.j)]
  ELSE LET np == Frame_mul(Last(s.p), Segment_pose(seg, Scalar(0)))
       IN [s EXCEPT !.p = Append(@, np),
                    !.links = IF c.get_links /\ seg.link.has
                              THEN Append(@, Frame_mul(np, Link_frame)) ELSE @,
                    !.i = @ + 1,
                    !.reads = Append(@, -1)]

\* sum_k masses[k] * rows[k+1][:3]
RECURSIVE WeightedSum(_, _)
WeightedSum(ms, rows) ==
  IF Len(ms) = 0 THEN <<0, 0>>
  ELSE VAdd(VScale(ms[1], <<rows[2][1], rows[2][2]>>),
            WeightedSum(Tail(ms), Tail(rows)))

\* x / d on floats: the quotient num/den, NaN when d = 0 (no exception)
Div(num, den) ==
  [nan |-> den = 0, num |-> num, den |-> den]

\* Chain.xs, lines 335-367 (get_collision_samples = False)
xs_finish(segs, c, s) ==
  IF c.get_links
  THEN LET ls == return_frame(FrameList(s.links), c.layout) IN
       IF ls.status = "raise" THEN ls
       ELSE IF ls.ret.t # "tensor" THEN Raise("TypeError")  \* list / None [..., 1:, :3]
       ELSE LET com == Div(WeightedSum(masses(segs), ls.ret.rows), mass(segs))
                rf == return_frame(FrameList(s.p), c.layout)
            IN IF rf.status = "raise" THEN rf
               ELSE Ok([t |-> "tuple", xs |-> rf.ret, links |-> ls.ret, com |-> com])
  ELSE return_frame(FrameList(s.p), c.layout)

RECURSIVE xs_loop(_, _, _)
xs_loop(segs, c, s) ==
  IF s.err # "" \/ s.i >= Len(segs) THEN s
  ELSE xs_loop(segs, c, xs_body(segs, c, s))

\* Chain.xs as one call
Chain_xs(segs, c) ==
  LET s == xs_loop(segs, c, xs_init(c))
  IN IF s.err # "" THEN Raise(s.err) ELSE xs_finish(segs, c, s)

\* Chain.jacobian, lines 381-397: T_tmp = base, j = 0, jac = []
jac_init(c) ==
  [St0 EXCEPT !.T_tmp = BaseFrame(c.base)]

\* jac_body with a column appended for every segment, Fixed included (the
\* zero-twist-per-segment variant left commented out at line 394)
jac_body_col_per_segment(segs, c, s) ==
  LET seg == segs[s.i + 1] IN
  IF Actuated(seg) /\ s.j >= Len(c.q)
  THEN [s EXCEPT !.err = "IndexError"]
  ELSE LET total == IF Actuated(seg)
                    THEN Frame_mul(s.T_tmp, Segment_pose(seg, QComp(c, s.j)))
                    ELSE Frame_mul(s.T_tmp, Segment_pose_0(seg))
           d == [v |-> VSub(total.p, s.T_tmp.p), batch |-> total.batch \/ s.T_tmp.batch]
           moved == [k \in 1..Len(s.jac) |-> ref_point(s.jac[k], d)]
       IN IF Actuated(seg)
          THEN LET t_tmp == Twist_rmul(s.T_tmp.m, s.T_tmp.batch,
                                       Segment_twist(seg, QComp(c, s.j), 1))
               IN [s EXCEPT !.jac = Append(moved, t_tmp),
                            !.j = @ + 1,
                            !.i = @ + 1,
                            !.T_tmp = total,
                            !.total = total,
                            !.reads = Append(@, s.j),
                            !.born = Append(@, [t |-> t_tmp, at |-> total.p])]
          ELSE [s EXCEPT !.jac = Append(moved, TwistOf(<<0, 0>>, 0, FALSE)),
                         !.i = @ + 1,
                         !.T_tmp = total,
                         !.total = total,
                         !.reads = Append(@, -1)]

\* jac_body with the existing columns transported only when a column is
\* appended, i.e. not at Fixed segments
jac_body_no_move_on_fixed(segs, c, s) ==
  LET seg == segs[s.i + 1] IN
  IF Actuated(seg) /\ s.j >= Len(c.q)
  THEN [s EXCEPT !.err = "IndexError"]
  ELSE LET total == IF Actuated(seg)
                    THEN Frame_mul(s.T_tmp, Segment_pose(seg, QComp(c, s.j)))
                    ELSE Frame_mul(s.T_tmp, Segment_pose_0(seg))
           d == [v |-> VSub(total.p, s.T_tmp.p), batch |-> total.batch \/ s.T_tmp.batch]
           moved == [k \in 1..Len(s.jac) |-> ref_point(s.jac[k], d)]
       IN IF Actuated(seg)
          THEN LET t_tmp == Twist_rmul(s.T_tmp.m, s.T_tmp.batch,
                                       Segment_twist(seg, QComp(c, s.j), 1))
               IN [s EXCEPT !.jac = Append(moved, t_tmp),
                            !.j = @ + 1,
                            !.i = @ + 1,
                            !.T_tmp = total,
                            !.total = total,
                            !.reads = Append(@, s.j),
                            !.born = Append(@, [t |-> t_tmp, at |-> total.p])]
          ELSE [s EXCEPT !.i = @ + 1,
                         !.T_tmp = total,
                         !.total = total,
                         !.reads = Append(@, -1)]

\* Chain.jacobian, lines 398-421: one iteration of the loop
jac_body(segs, c, s) ==
  LET seg == segs[s.i + 1] IN
  IF Actuated(seg) /\ s.j >= Len(c.q)
  THEN [s EXCEPT !.err = "IndexError"]
  ELSE LET total == IF Actuated(seg)
                    THEN Frame_mul(s.T_tmp, Segment_pose(seg, QComp(c, s.j)))
                    ELSE Frame_mul(s.T_tmp, Segment_pose_0(seg))
           d == [v |-> VSub(total.p, s.T_tmp.p), batch |-> total.batch \/ s.T_tmp.batch]
           moved == [k \in 1..Len(s.jac) |-> ref_point(s.jac[k], d)]
       IN IF Actuated(seg)
          THEN LET t_tmp == Twist_rmul(s.T_tmp.m, s.T_tmp.batch,
                                       Segment_twist(seg, QComp(c, s.j), 1))
               IN [s EXCEPT !.jac = Append(moved, t_tmp),
                            !.j = @ + 1,
                            !.i = @ + 1,
                            !.T_tmp = total,
                            !.total = total,
                            !.reads = Append(@, s.j),
                            !.born = Append(@, [t |-> t_tmp, at |-> total.p])]
          ELSE [s EXCEPT !.jac = moved,
                         !.i = @ + 1,
                         !.T_tmp = total,
                         !.total = total,
                         !.reads = Append(@, -1)]

\* tf.transpose(x, (0, 2, 1)): needs a rank-3 tensor; the stacked vectors
\* become the columns of the result
transpose021(r) ==
  IF r.status = "raise" THEN r
  ELSE IF ~r.ret.batch THEN Raise("ValueError")
  ELSE Ok([t |-> "jacobian", batch |-> TRUE, cols |-> r.ret.rows])

\* x[:, :3]: the linear rows of each column
LinearRows(r) ==
  IF r.status = "raise" THEN r
  ELSE Ok([r.ret EXCEPT !.cols = [k \in 1..Len(@) |-> <<@[k][1], @[k][2]>>]])

\* Chain.jacobian, lines 423-430
jac_finish(c, s) ==
  LET n == Len(s.jac) IN
  CASE c.layout \in {"xm", "xmv"} ->
         transpose021(stack_batch([k \in 1..n |-> dx_mat(s.jac[k], s.total.m, c.layout)]))
    [] c.layout = "xq" ->
         transpose021(stack_batch([k \in 1..n |-> Twist_dx(s.jac[k])]))
    [] c.layout = "x" ->
         LinearRows(transpose021(stack_batch([k \in 1..n |-> Twist_dx(s.jac[k])])))
    [] OTHER ->
         Raise("NotImplementedError")

RECURSIVE jac_loop(_, _, _)
jac_loop(segs, c, s) ==
  IF s.err # "" \/ s.i >= Len(segs) - c.n THEN s
  ELSE jac_loop(segs, c, jac_body(segs, c, s))

\* Chain.jacobian as one call
Chain_jacobian(segs, c) ==
  LET s == jac_loop(segs, c, jac_init(c))
  IN IF s.err # "" THEN Raise(s.err) ELSE jac_finish(c, s)

\* Chain.ee_frame, lines 252-257: p = segments[0].pose(q[0]), j = 1
ee_init(segs, c) ==
  IF c.kind = "list" THEN [St0 EXCEPT !.err = "AttributeError"]  \* list has no shape
  ELSE IF Len(segs) = 0 \/ Len(c.q) = 0 THEN [St0 EXCEPT !.err = "IndexError"]
  ELSE [St0 EXCEPT !.p = <<Segment_pose(segs[1], QComp(c, 0))>>,
                   !.i = 1, !.j = 1, !.reads = <<0>>]

\* Chain.ee_frame, lines 259-269: one iteration of the loop
ee_body(segs, c, s) ==
  LET seg == segs[s.i + 1] IN
  IF Actuated(seg)
  THEN IF s.j >= Len(c.q)
       THEN [s EXCEPT !.err = "IndexError"]
       ELSE [s EXCEPT !.p = <<Frame_mul(s.p[1], Segment_pose(seg, QComp(c, s.j)))>>,
                      !.j = @ + 1,
                      !.i = @ + 1,
                      !.reads = Append(@, s.j)]
  ELSE [s EXCEPT !.p = <<Frame_mul(s.p[1], Segment_pose(seg, Scalar(0)))>>,
                 !.i = @ + 1,
                 !.reads = Append(@, -1)]

\* Chain.ee_frame, line 272
ee_finish(c, s) ==
  return_frame(OneFrame(s.p[1]), c.layout)

\* ------------------------------------------------------------ the object
\* ChainDict class attributes _names, _unique_names, _nb_joints,
\* _joint_limits, _mean_pose: None until first computed
None ==
  [none |-> TRUE, v |-> <<>>]

Some(x) ==
  [none |-> FALSE, v |-> x]

Cache0 ==
  [names |-> None, unique |-> None, nb_joints |-> None,
   joint_limits |-> None, mean_pose |-> None]

NoResult ==
  [status |-> "none", err |-> "", ret |-> NoRet]

ChainOf(name, segs) ==
  [name |-> name, segments |-> segs]

\* segments of a chain used on its own: every segment carries a link
ChainSegments ==
  {Segment(t, "a", Link(1)) : t \in JointTypes}

\* joint vectors offered to a chain: one component per actuated joint
JointVectors(segs) ==
  [1..nb_joint(segs) -> QVals]

Truncations == 0..MaxSegm

InitChain ==
  /\ chains \in {<<ChainOf("c1", segs)>> : segs \in SeqsUpTo(ChainSegments, MaxSegm)}
  /\ cache = Cache0
  /\ call = NoCall
  /\ pc = "idle"
  /\ st = St0
  /\ result = NoResult

Segs ==
  chains[call.ci].segments

\* ------------------------------------------------------------- Chain.xs
XsCall(gl) ==
  /\ pc = "idle"
  /\ \E ci \in 1..Len(chains), kind \in QKinds, layout \in Layouts, fb \in FloatingBases :
       \E q \in JointVectors(chains[ci].segments) :
         /\ call' = Call("xs", ci, q, kind, layout, fb, 0, gl, "")
         /\ st' = xs_init(call')
  /\ pc' = "xs"
  /\ UNCHANGED <<chains, cache, result>>

XsStep ==
  /\ pc = "xs"
  /\ st.err = ""
  /\ st.i < Len(Segs)
  /\ st' = xs_body(Segs, call, st)
  /\ UNCHANGED <<chains, cache, call, pc, result>>

XsReturn ==
  /\ pc = "xs"
  /\ st.err # "" \/ st.i >= Len(Segs)
  /\ result' = IF st.err # "" THEN Raise(st.err) ELSE xs_finish(Segs, call, st)
  /\ pc' = "done"
  /\ UNCHANGED <<chains, cache, call, st>>

\* ------------------------------------------------------- Chain.jacobian
JacobianCall ==
  /\ pc = "idle"
  /\ \E ci \in 1..Len(chains), kind \in QKinds, layout \in Layouts,
        fb \in FloatingBases, n \in Truncations :
       \E q \in JointVectors(chains[ci].segments) :
         /\ call' = Call("jacobian", ci, q, kind, layout, fb, n, FALSE, "")
         /\ st' = jac_init(call')
  /\ pc' = "jacobian"
  /\ UNCHANGED <<chains, cache, result>>

JacobianStep ==
  /\ pc = "jacobian"
  /\ st.err = ""
  /\ st.i < Len(Segs) - call.n
  /\ st' = jac_body(Segs, call, st)
  /\ UNCHANGED <<chains, cache, call, pc, result>>

JacobianReturn ==
  /\ pc = "jacobian"
  /\ st.err # "" \/ st.i >= Len(Segs) - call.n
  /\ result' = IF st.err # "" THEN Raise(st.err) ELSE jac_finish(call, st)
  /\ pc' = "done"
  /\ UNCHANGED <<chains, cache, call, st>>

\* ------------------------------------------------------- Chain.ee_frame
EeFrameCall ==
  /\ pc = "idle"
  /\ \E ci \in 1..Len(chains), kind \in QKinds, layout \in Layouts, n \in Truncations :
       \E q \in JointVectors(chains[ci].segments) :
         /\ call' = Call("ee_frame", ci, q, kind, layout, NoBase, n, FALSE, "")
         /\ st' = ee_init(chains[ci].segments, call')
  /\ pc' = "ee_frame"
  /\ UNCHANGED <<chains, cache, result>>

EeFrameStep ==
  /\ pc = "ee_frame"
  /\ st.err = ""
  /\ st.i < Len(Segs) - call.n
  /\ st' = ee_body(Segs, call, st)
  /\ UNCHANGED <<chains, cache, call, pc, result>>

EeFrameReturn ==
  /\ pc = "ee_frame"
  /\ st.err # "" \/ st.i >= Len(Segs) - call.n
  /\ result' = IF st.err # "" THEN Raise(st.err) ELSE ee_finish(call, st)
  /\ pc' = "done"
  /\ UNCHANGED <<chains, cache, call, st>>

XsCallPlain ==
  XsCall(FALSE)

Next ==
  \/ XsCallPlain
  \/ XsStep
  \/ XsReturn
  \/ JacobianCall
  \/ JacobianStep
  \/ JacobianReturn
  \/ EeFrameCall
  \/ EeFrameStep
  \/ EeFrameReturn

Spec ==
  InitChain /\ [][Next]_vars

\* ------------------------------------------------------------ ChainDict
JointNames == {"a", "b"}

\* the child names of the actuated segments of a chain, in order
RECURSIVE ActuatedNames(_)
ActuatedNames(segs) ==
  IF Len(segs) = 0 THEN <<>>
  ELSE LET rest == ActuatedNames(SubSeq(segs, 1, Len(segs) - 1))
           seg == segs[Len(segs)]
       IN IF Actuated(seg) THEN Append(rest, seg.child_name) ELSE rest

Range(s) ==
  {s[k] : k \in 1..Len(s)}

RECURSIVE Filter(_, _)
Filter(s, banned) ==
  IF Len(s) = 0 THEN <<>>
  ELSE IF s[1] \in banned THEN Filter(Tail(s), banned)
  ELSE <<s[1]>> \o Filter(Tail(s), banned)

\* lines 445-449, the loop over the chains from chain k on: names grows by
\* the chain's actuated names, unique by those of them that are not in
\* unique as it stands before this chain
RECURSIVE scan_names(_, _, _, _)
scan_names(cs, k, names, unique) ==
  IF k > Len(cs) THEN [names |-> names, unique |-> unique]
  ELSE LET an == ActuatedNames(cs[k].segments)
       IN scan_names(cs, k + 1, names \o an, unique \o Filter(an, Range(unique)))

\* ChainDict.actuated_joint_names, lines 440-454: the cache after the read
actuated_joint_names(cs, ch) ==
  IF ch.names.none \/ ch.unique.none
  THEN LET r == scan_names(cs, 1, <<>>, <<>>)
       IN [ch EXCEPT !.names = Some(r.names),
                     !.unique = Some(r.unique),
                     !.nb_joints = Some(Len(r.unique))]
  ELSE ch

\* ChainDict.nb_joint, lines 456-461: the cache after the read
ChainDict_nb_joint(cs, ch) ==
  IF ch.nb_joints.none THEN actuated_joint_names(cs, ch) ELSE ch

\* list.index: 0-based position of the first occurrence
index(s, x) ==
  (CHOOSE k \in 1..Len(s) : s[k] = x /\ \A m \in 1..(k - 1) : s[m] # x) - 1

\* lines 511-516 and 562-567
idx_chain(cs, unique) ==
  [k \in 1..Len(cs) |->
     LET an == ActuatedNames(cs[k].segments)
     IN [m \in 1..Len(an) |-> index(unique, an[m])]]

\* lines 518-521 and 569-572: [q[:, i] for i in idx]; q[:, i] of a rank-1
\* tensor, or past the width of q, is an error
q_chains_err(c, idx) ==
  \E k \in 1..Len(idx) : \E m \in 1..Len(idx[k]) :
    c.kind # "batch" \/ idx[k][m] >= Len(c.q)

q_chains(c, idx) ==
  [k \in 1..Len(idx) |-> [m \in 1..Len(idx[k]) |-> c.q[idx[k][m] + 1]]]

\* the call a chain receives from the ChainDict: q is a list of [batch] tensors
SubCall(c, op, k, qs) ==
  Call(op, k, qs[k], "list", c.layout, c.base, c.n, c.get_links, "")

Raised(rs) ==
  {k \in 1..Len(rs) : rs[k].status = "raise"}

FirstRaised(rs) ==
  rs[CHOOSE k \in Raised(rs) : \A m \in Raised(rs) : k <= m]

\* ChainDict.mass, lines 494-499
ChainDict_mass(cs) ==
  SumSeq([k \in 1..Len(cs) |-> mass(cs[k].segments)])

NameIndex(cs, name) ==
  CHOOSE k \in 1..Len(cs) : cs[k].name = name

\* ChainDict.xs, lines 574-598, given the per-chain joint lists
ChainDict_xs_result(cs, c, qs) ==
  IF c.name = ""
  THEN LET rs == [k \in 1..Len(cs) |-> Chain_xs(cs[k].segments, SubCall(c, "xs", k, qs))]
       IN IF Raised(rs) # {} THEN FirstRaised(rs)
          ELSE IF ~c.get_links
          THEN Ok([t |-> "dict", items |-> [k \in 1..Len(cs) |-> rs[k].ret]])
          ELSE LET total == ChainDict_mass(cs)
                   parts == [k \in 1..Len(cs) |->
                               [com |-> rs[k].ret.com, mass |-> mass(cs[k].segments)]]
               IN Ok([t |-> "tuple",
                      xs |-> [k \in 1..Len(cs) |-> rs[k].ret.xs],
                      links |-> [k \in 1..Len(cs) |-> rs[k].ret.links],
                      com |-> [nan |-> total = 0 \/ \E k \in 1..Len(cs) : rs[k].ret.com.nan,
                               num |-> parts, den |-> total]])
  ELSE LET k == NameIndex(cs, c.name)
       IN Chain_xs(cs[k].segments, SubCall(c, "xs", k, qs))

\* lines 534-544: the chain's columns placed at their global index in a
\* matrix of nb_joint zero columns
Augment(jac, idx, nb) ==
  IF Len(jac.cols) = 0 THEN Raise("ValueError")           \* jac[:, :, 0]
  ELSE IF Len(idx) > Len(jac.cols) THEN Raise("ValueError") \* jac[:, :, j]
  ELSE LET zero == [r \in 1..Len(jac.cols[1]) |-> 0]
           owner(g) == {j \in 1..Len(idx) : idx[j] = g - 1}
           lastOwner(g) == CHOOSE j \in owner(g) : \A m \in owner(g) : m <= j
       IN Ok([t |-> "jacobian", batch |-> jac.batch,
              cols |-> [g \in 1..nb |->
                          IF owner(g) = {} THEN zero ELSE jac.cols[lastOwner(g)]]])

\* ChainDict.jacobian, lines 523-549, given the per-chain joint lists
ChainDict_jacobian_result(cs, c, qs, idx, nb) ==
  IF c.name = ""
  THEN LET rs == [k \in 1..Len(cs) |->
                    Chain_jacobian(cs[k].segments, SubCall(c, "jacobian", k, qs))]
       IN IF Raised(rs) # {} THEN FirstRaised(rs)
          ELSE LET aug == [k \in 1..Len(cs) |-> Augment(rs[k].ret, idx[k], nb)]
               IN IF Raised(aug) # {} THEN FirstRaised(aug)
                  ELSE Ok([t |-> "dict", items |-> [k \in 1..Len(cs) |-> aug[k].ret]])
  ELSE LET k == NameIndex(cs, c.name)
       IN Chain_jacobian(cs[k].segments, SubCall(c, "jacobian", k, qs))

\* names of the chains of a ChainDict, in insertion order
ChainNames ==
  <<"c1", "c2", "c3", "c4">>

DictsOver(S) ==
  UNION {{[k \in 1..n |-> ChainOf(ChainNames[k], ss[k])] :
            ss \in [1..n -> SeqsUpTo(S, MaxSegmDict)]} : n \in 1..MaxChains}

\* segments of the chains of a ChainDict: joint names may repeat, within a
\* chain and across chains
DictSegments ==
  {Segment(t, nm, Link(1)) : t \in JointTypes, nm \in JointNames}

\* child names that differ from segment to segment and from chain to chain
DistinctNames ==
  <<<<"a1", "a2", "a3", "a4">>, <<"b1", "b2", "b3", "b4">>,
    <<"c1", "c2", "c3", "c4">>, <<"d1", "d2", "d3", "d4">>>>

\* joint type and link of a segment: with or without a link, of any mass
LinkSegments ==
  {Segment(t, "", l) : t \in JointTypes, l \in {NoLink} \cup {Link(m) : m \in 0..MaxMass}}

\* the k-th chain made of the segments ss, named by position
LinkChain(k, ss) ==
  ChainOf(ChainNames[k], [m \in 1..Len(ss) |-> [ss[m] EXCEPT !.child_name = DistinctNames[k][m]]])

InitDict ==
  /\ chains \in DictsOver(DictSegments)
  /\ cache = Cache0
  /\ call = NoCall
  /\ pc = "idle"
  /\ st = St0
  /\ result = NoResult

DictTruncations == 0..MaxSegmDict

\* floating bases offered to the ChainDict calls
DictBases == {NoBase}

NameFilters ==
  {""} \cup {chains[k].name : k \in 1..Len(chains)}

\* the property actuated_joint_names read by a caller
ReadActuatedJointNames ==
  /\ pc = "idle"
  /\ cache' = actuated_joint_names(chains, cache)
  /\ result' = Ok([t |-> "names", names |-> cache'.names.v])
  /\ UNCHANGED <<chains, call, pc, st>>

\* the property nb_joint read by a caller
ReadNbJoint ==
  /\ pc = "idle"
  /\ cache' = ChainDict_nb_joint(chains, cache)
  /\ result' = Ok([t |-> "int", n |-> cache'.nb_joints.v])
  /\ UNCHANGED <<chains, call, pc, st>>

\* ChainDict.xs, lines 552-598
DictXs(gl) ==
  /\ pc = "idle"
  /\ cache' = actuated_joint_names(chains, cache)
  /\ \E kind \in {"vec", "batch"}, layout \in Layouts, fb \in DictBases,
        name \in NameFilters :
       \E q \in [1..cache'.nb_joints.v -> QVals] :
         LET c == Call("dict_xs", 0, q, kind, layout, fb, 0, gl, name)
             idx == idx_chain(chains, cache'.unique.v)
         IN /\ call' = c
            /\ IF q_chains_err(c, idx)
               THEN /\ st' = [St0 EXCEPT !.idx_chain = idx, !.err = "IndexError"]
                    /\ result' = Raise("IndexError")
               ELSE /\ st' = [St0 EXCEPT !.idx_chain = idx, !.q_chains = q_chains(c, idx)]
                    /\ result' = ChainDict_xs_result(chains, c, q_chains(c, idx))
  /\ pc' = "done"
  /\ UNCHANGED chains

\* ChainDict.jacobian, lines 508-549
DictJacobian ==
  /\ pc = "idle"
  /\ cache' = actuated_joint_names(chains, cache)
  /\ \E kind \in {"vec", "batch"}, layout \in Layouts, fb \in DictBases,
        name \in NameFilters, n \in DictTruncations :
       \E q \in [1..cache'.nb_joints.v -> QVals] :
         LET c == Call("dict_jacobian", 0, q, kind, layout, fb, n, FALSE, name)
             idx == idx_chain(chains, cache'.unique.v)
         IN /\ call' = c
            /\ IF q_chains_err(c, idx)
               THEN /\ st' = [St0 EXCEPT !.idx_chain = idx, !.err = "IndexError"]
                    /\ result' = Raise("IndexError")
               ELSE /\ st' = [St0 EXCEPT !.idx_chain = idx, !.q_chains = q_chains(c, idx)]
                    /\ result' = ChainDict_jacobian_result(chains, c, q_chains(c, idx), idx,
                                                           cache'.nb_joints.v)
  /\ pc' = "done"
  /\ UNCHANGED chains

DictXsPlain ==
  DictXs(FALSE)

NextDict ==
  \/ ReadActuatedJointNames
  \/ ReadNbJoint
  \/ DictXsPlain
  \/ DictJacobian

SpecDict ==
  InitDict /\ [][NextDict]_vars

\* chains whose segments carry links of any mass, or none; at most
\* MaxSegmDict segments in all
InitLinks ==
  /\ chains \in UNION {{[k \in 1..n |-> LinkChain(k, ss[k])] :
                          ss \in {f \in [1..n -> SeqsUpTo(LinkSegments, MaxSegmDict)] :
                                    SumSeq([k \in 1..n |-> Len(f[k])]) <= MaxSegmDict}} :
                       n \in 1..MaxChains}
  /\ cache = Cache0
  /\ call = NoCall
  /\ pc = "idle"
  /\ st = St0
  /\ result = NoResult

XsCallLinks ==
  XsCall(TRUE)

DictXsLinks ==
  DictXs(TRUE)

NextLinks ==
  \/ XsCallLinks
  \/ XsStep
  \/ XsReturn
  \/ DictXsLinks

SpecLinks ==
  InitLinks /\ [][NextLinks]_vars

\* ------------------------------------- joint vectors of any length
\* q as a caller may pass it: any number of components, up to one more than
\* the longest chain has joints
AnyJointVectors ==
  SeqsUpTo(QVals, MaxSegm + 1)

\* Chain.xs called with a joint vector of any length
XsCallAnyLength ==
  /\ pc = "idle"
  /\ \E ci \in 1..Len(chains), kind \in QKinds, layout \in Layouts, q \in AnyJointVectors :
       /\ call' = Call("xs", ci, q, kind, layout, NoBase, 0, FALSE, "")
       /\ st' = xs_init(call')
  /\ pc' = "xs"
  /\ UNCHANGED <<chains, cache, result>>

\* Chain.jacobian called with a joint vector of any length
JacobianCallAnyLength ==
  /\ pc = "idle"
  /\ \E ci \in 1..Len(chains), kind \in QKinds, layout \in Layouts, n \in Truncations,
        q \in AnyJointVectors :
       /\ call' = Call("jacobian", ci, q, kind, layout, NoBase, n, FALSE, "")
       /\ st' = jac_init(call')
  /\ pc' = "jacobian"
  /\ UNCHANGED <<chains, cache, result>>

NextLen ==
  \/ XsCallAnyLength
  \/ XsStep
  \/ XsReturn
  \/ JacobianCallAnyLength
  \/ JacobianStep
  \/ JacobianReturn

SpecLen ==
  InitChain /\ [][NextLen]_vars

\* ------------------------------------------- Frame applied to points
\* Here the batch axes are carried in full.  A tensor of vectors is a grid
\* at[a][b] with its dimensions right-aligned: shape [3] is a 1 x 1 grid of
\* rank 1, [N, 3] a 1 x N grid of rank 2, [M, N, 3] an M x N grid of rank 3.
MaxBatch == 3

Grid(rank, at) ==
  [t |-> "points", rank |-> rank, at |-> at]

\* a Frame with p of shape [M, 3] and m of shape [M, 3, 3] (is_batch), or
\* p of shape [3] and m of shape [3, 3] (ps and ms of length 1)
BatchFrame(ps, ms, is_batch) ==
  [ps |-> ps, ms |-> ms, is_batch |-> is_batch]

\* the tensor handed to Frame.__mul__: its rows, its rank and whether its
\* last dimension is 3
PointTensor(rows, rank, dim3) ==
  [at |-> <<rows>>, rank |-> rank, dim3 |-> dim3]

Max(x, y) ==
  IF x >= y THEN x ELSE y

\* broadcasting of one axis: equal sizes, or one of them 1
Compatible(x, y) ==
  x = y \/ x = 1 \/ y = 1

Pick(k, d) ==
  IF d = 1 THEN 1 ELSE k

\* two tensors broadcast against each other: the grid of the pairs of
\* entries an elementwise operation combines, or a shape error
Broadcast2(A, B) ==
  LET a0 == Len(A.at)
      a1 == Len(A.at[1])
      b0 == Len(B.at)
      b1 == Len(B.at[1])
  IN IF ~Compatible(a0, b0) \/ ~Compatible(a1, b1)
     THEN Raise("InvalidArgumentError")
     ELSE Ok(Grid(Max(A.rank, B.rank),
                  [r \in 1..Max(a0, b0) |->
                     [c \in 1..Max(a1, b1) |->
                        <<A.at[Pick(r, a0)][Pick(c, a1)], B.at[Pick(r, b0)][Pick(c, b1)]>>]]))

\* tf.linalg.LinearOperatorFullMatrix(m).matvec(x): the batch axes of m and
\* of x broadcast against each other
matvec(mg, xg) ==
  LET b == Broadcast2(mg, xg)
  IN IF b.status = "raise" THEN b
     ELSE Ok(Grid(b.ret.rank,
                  [r \in 1..Len(b.ret.at) |->
                     [c \in 1..Len(b.ret.at[r]) |->
                        matvecmul(b.ret.at[r][c][1], b.ret.at[r][c][2])]]))

\* tensor + tensor
tensor_add(xg, yg) ==
  LET b == Broadcast2(xg, yg)
  IN IF b.status = "raise" THEN b
     ELSE Ok(Grid(b.ret.rank,
                  [r \in 1..Len(b.ret.at) |->
                     [c \in 1..Len(b.ret.at[r]) |->
                        VAdd(b.ret.at[r][c][1], b.ret.at[r][c][2])]]))

\* Frame.__mul__ with a tensor operand, frame.py lines 190-198
Frame_mul_tensor(F, X) ==
  IF ~X.dim3 THEN Raise("NotImplementedError")
  ELSE IF F.is_batch
  THEN LET mg == Grid(3, [a \in 1..Len(F.ms) |-> <<F.ms[a]>>])   \* self.m[:, None]
           xg == Grid(X.rank + 1, X.at)                          \* other[None]
           pg == Grid(3, <<F.ps>>)                               \* self.p[None]
           mv == matvec(mg, xg)
       IN IF mv.status = "raise" THEN mv ELSE tensor_add(mv.ret, pg)
  ELSE LET mg == Grid(1, <<<<F.ms[1]>>>>)                        \* self.m
           xg == Grid(X.rank, X.at)                              \* other
           pg == Grid(2, <<F.ps>>)                               \* self.p[None]
           mv == matvec(mg, xg)
       IN IF mv.status = "raise" THEN mv ELSE tensor_add(mv.ret, pg)

\* translations, rotations and points the operands are drawn from
PointTranslations ==
  {<<0, 0>>, <<1, 0>>}

PointRotations ==
  {0, 1}

PointValues ==
  {<<1, 0>>, <<0, 1>>}

BatchFrames ==
  UNION {{BatchFrame(ps, ms, TRUE) : ps \in [1..M -> PointTranslations],
                                      ms \in [1..M -> PointRotations]} : M \in 1..MaxBatch}
  \cup {BatchFrame(<<p>>, <<m>>, FALSE) : p \in PointTranslations, m \in PointRotations}

PointTensors ==
  UNION {{PointTensor(rows, 2, d) : rows \in [1..N -> PointValues], d \in BOOLEAN} :
           N \in 1..MaxBatch}
  \cup {PointTensor(<<x>>, 1, d) : x \in PointValues, d \in BOOLEAN}

InitPoints ==
  /\ chains = <<>>
  /\ cache = Cache0
  /\ call \in {[op |-> "Frame.__mul__", frame |-> F, other |-> X] :
                 F \in BatchFrames, X \in PointTensors}
  /\ pc = "idle"
  /\ st = St0
  /\ result = NoResult

\* Frame.__mul__(tensor)
FrameMulTensor ==
  /\ pc = "idle"
  /\ call.op = "Frame.__mul__"
  /\ result' = Frame_mul_tensor(call.frame, call.other)
  /\ pc' = "done"
  /\ UNCHANGED <<chains, cache, call, st>>

NextPoints ==
  FrameMulTensor

SpecPoints ==
  InitPoints /\ [][NextPoints]_vars

\* ------------------------------- ChainDict.joint_limits, mean_pose
\* seg.joint.limits: the lower and upper limit of the joint moving a child
Joint_limits(seg) ==
  IF seg.child_name = "a" THEN [low |-> -1, up |-> 1] ELSE [low |-> 0, up |-> 2]

\* np.mean([low, up])
Mean(lim) ==
  (lim.low + lim.up) \div 2

RECURSIVE Concat(_)
Concat(ss) ==
  IF Len(ss) = 0 THEN <<>> ELSE ss[1] \o Concat(Tail(ss))

\* the segments in the order "for name, chain in self.items(): for seg in
\* chain.segments" visits them
DictSegs(cs) ==
  Concat([k \in 1..Len(cs) |-> cs[k].segments])

\* _joint_limits_all[name]: the dict is filled in visiting order, a later
\* actuated segment of the same child name overwrites an earlier one
joint_limits_all(cs, name) ==
  LET segs == DictSegs(cs)
      own == {k \in 1..Len(segs) : Actuated(segs[k]) /\ segs[k].child_name = name}
  IN segs[CHOOSE k \in own : \A m \in own : m <= k]

\* ChainDict.joint_limits, lines 463-477: the cache after the read
ChainDict_joint_limits(cs, ch) ==
  IF ch.joint_limits.none
  THEN LET c1 == actuated_joint_names(cs, ch)
           u == c1.unique.v
       IN [c1 EXCEPT !.joint_limits =
             Some([k \in 1..Len(u) |-> Joint_limits(joint_limits_all(cs, u[k]))])]
  ELSE ch

\* ChainDict.mean_pose, lines 479-491: the outcome and the cache after the
\* read; "for name in self._unique_names" over None is a TypeError
ChainDict_mean_pose(cs, ch) ==
  IF ~ch.mean_pose.none
  THEN [res |-> Ok([t |-> "mean_pose", v |-> ch.mean_pose.v]), cache |-> ch]
  ELSE IF ch.unique.none
  THEN [res |-> Raise("TypeError"), cache |-> ch]
  ELSE LET u == ch.unique.v
           mp == [k \in 1..Len(u) |-> Mean(Joint_limits(joint_limits_all(cs, u[k])))]
       IN [res |-> Ok([t |-> "mean_pose", v |-> mp]),
           cache |-> [ch EXCEPT !.mean_pose = Some(mp)]]

\* the property joint_limits read by a caller
ReadJointLimits ==
  /\ pc = "idle"
  /\ cache' = ChainDict_joint_limits(chains, cache)
  /\ result' = Ok([t |-> "joint_limits", v |-> cache'.joint_limits.v])
  /\ UNCHANGED <<chains, call, pc, st>>

\* the property mean_pose read by a caller
ReadMeanPose ==
  /\ pc = "idle"
  /\ cache' = ChainDict_mean_pose(chains, cache).cache
  /\ result' = ChainDict_mean_pose(chains, cache).res
  /\ UNCHANGED <<chains, call, pc, st>>

NextProps ==
  \/ ReadActuatedJointNames
  \/ ReadNbJoint
  \/ ReadJointLimits
  \/ ReadMeanPose

SpecProps ==
  InitDict /\ [][NextProps]_vars

\* =================================================== properties, chain
\* number of actuated segments among the first i segments
ActBefore(segs, i) ==
  Cardinality({k \in 1..i : Actuated(segs[k])})

\* the joint value segment k is to be posed with: the next unused
\* component of q when actuated, 0 when Fixed
JointValue(segs, c, k) ==
  IF Actuated(segs[k]) THEN QComp(c, ActBefore(segs, k - 1)) ELSE Scalar(0)

\* the running pose after the first i segments, from the base
RECURSIVE PoseAfter(_, _, _)
PoseAfter(segs, c, i) ==
  IF i = 0 THEN BaseFrame(c.base)
  ELSE Frame_mul(PoseAfter(segs, c, i - 1), Segment_pose(segs[i], JointValue(segs, c, i)))

\* the row a pose is serialized to in a flat layout
LayoutRow(f, layout) ==
  CASE layout = "x" -> f.p
    [] layout = "xm" -> <<f.p[1], f.p[2]>> \o RotMat(f.m)
    [] layout = "xmv" -> <<f.p[1], f.p[2]>> \o Transpose2(RotMat(f.m))

FitsChain ==
  Len(call.q) = nb_joint(Segs)

\* C1: for every chain and every q with one component per actuated joint,
\* Chain.xs walks the segments in order from the base pose: the k-th actuated
\* segment is composed with pose(q[k]), a Fixed segment with pose(0) without
\* consuming a component, and the pose list returned has nb_segm + 1
\* entries, entry 1 the base and entry i+1 the running pose after segment i.
C1_XsWalk ==
  (call.op = "xs" /\ FitsChain) =>
    /\ st.err = ""
    /\ Len(st.p) = st.i + 1
    /\ st.j = ActBefore(Segs, st.i)
    /\ st.p[1] = BaseFrame(call.base)
    /\ \A k \in 1..st.i :
         /\ st.reads[k] = IF Actuated(Segs[k]) THEN ActBefore(Segs, k - 1) ELSE -1
         /\ st.p[k + 1] = Frame_mul(st.p[k], Segment_pose(Segs[k], JointValue(Segs, call, k)))
    /\ pc = "done" =>
         /\ st.i = Len(Segs)
         /\ (result.status = "ok" /\ result.ret.t = "frames") =>
              result.ret.frames = [k \in 1..Len(Segs) + 1 |-> PoseAfter(Segs, call, k - 1)]
         /\ (result.status = "ok" /\ result.ret.t = "tensor") =>
              result.ret.rows = [k \in 1..Len(Segs) + 1 |->
                                   LayoutRow(PoseAfter(Segs, call, k - 1), call.layout)]

\* a returned walk over a mixed chain: a Fixed segment before an actuated
\* one, two actuated segments posed with different joint values
C1_Witness ==
  /\ call.op = "xs" /\ pc = "done" /\ FitsChain
  /\ result.status = "ok" /\ result.ret.t = "tensor"
  /\ Len(result.ret.rows) = 4
  /\ ~Actuated(Segs[1]) /\ Actuated(Segs[2]) /\ Actuated(Segs[3])
  /\ call.q[1] # call.q[2]
  /\ ~call.base.none

\* C5: in Chain.jacobian(q, n) the list of twist columns holds one column per
\* actuated segment processed so far, in base-to-tip order, the k-th built
\* from q[k]; Fixed segments add no column and leave the joint index alone;
\* the joint index stays within 0..nb_joint; the loop stops after the first
\* nb_segm - n segments.
C5_Columns ==
  (call.op = "jacobian" /\ FitsChain) =>
    /\ st.err = ""
    /\ Len(st.jac) = ActBefore(Segs, st.i)
    /\ st.j = Len(st.jac)
    /\ st.j \in 0..nb_joint(Segs)
    /\ Len(st.born) = Len(st.jac)
    /\ \A k \in 1..st.i :
         st.reads[k] = IF Actuated(Segs[k]) THEN ActBefore(Segs, k - 1) ELSE -1
    /\ \A k \in 1..Len(st.born) :
         \E i \in 1..st.i :
           /\ Actuated(Segs[i]) /\ ActBefore(Segs, i) = k
           /\ st.born[k].at = PoseAfter(Segs, call, i).p
           /\ st.born[k].t = Twist_rmul(PoseAfter(Segs, call, i - 1).m,
                                        PoseAfter(Segs, call, i - 1).batch,
                                        Segment_twist(Segs[i], QComp(call, k - 1), 1))
    /\ pc = "done" =>
         st.i = IF Len(Segs) - call.n > 0 THEN Len(Segs) - call.n ELSE 0

\* a truncated Jacobian loop that has passed a Fixed segment and holds a column
C5_Witness ==
  /\ call.op = "jacobian" /\ pc = "done" /\ FitsChain
  /\ call.n = 1 /\ Len(Segs) = 3
  /\ ~Actuated(Segs[1]) /\ Actuated(Segs[2]) /\ Actuated(Segs[3])
  /\ Len(st.jac) = 1 /\ st.j = 1
  /\ call.q[1] = 1

\* one step of the Jacobian loop: every column held before the step is moved
\* by ref_point over total.p - T_tmp.p, and a column appended at the step is
\* the rotated local twist itself
C6_Step ==
  LET d == VSub(st'.T_tmp.p, st.T_tmp.p) IN
  /\ Len(st'.jac) = Len(st.jac) + (IF Actuated(Segs[st.i + 1]) THEN 1 ELSE 0)
  /\ \A k \in 1..Len(st.jac) :
       /\ st'.jac[k].vel = VAdd(st.jac[k].vel, cross(st.jac[k].rot, d))
       /\ st'.jac[k].rot = st.jac[k].rot
  /\ Actuated(Segs[st.i + 1]) =>
       st'.jac[Len(st'.jac)] = Twist_rmul(st.T_tmp.m, st.T_tmp.batch,
                                          Segment_twist(Segs[st.i + 1], QComp(call, st.j), 1))

\* the k-th column is its rotated local twist moved from the position of the
\* running pose right after its segment to the current end position
C6_Telescoped ==
  (call.op = "jacobian" /\ FitsChain) =>
    \A k \in 1..Len(st.jac) :
      /\ st.jac[k].vel = VAdd(st.born[k].t.vel,
                              cross(st.born[k].t.rot, VSub(st.T_tmp.p, st.born[k].at)))
      /\ st.jac[k].rot = st.born[k].t.rot

\* C6: at every segment step of Chain.jacobian, Fixed or actuated, every
\* column already in the list is transported by total.p - T_tmp.p before the
\* new column is appended and the new column is not transported; hence at
\* termination the k-th column is its rotated local twist transported by
\* (final end position - position of the running pose right after its segment).
C6_Transport ==
  /\ [][(JacobianStep /\ FitsChain) => C6_Step]_vars
  /\ [](C6_Telescoped)

\* a finished loop in which a column was moved at a Fixed step and differs
\* from the twist it was appended as
C6_Witness ==
  /\ call.op = "jacobian" /\ pc = "done" /\ FitsChain /\ call.n = 0
  /\ Len(Segs) = 3 /\ Actuated(Segs[1]) /\ Actuated(Segs[2]) /\ ~Actuated(Segs[3])
  /\ Len(st.jac) = 2
  /\ st.jac[1] # st.born[1].t
  /\ st.jac[2] # st.born[2].t

\* C7: for 0 <= n < nb_segm, Chain.ee_frame(q, n) traverses only the first
\* nb_segm - n segments, consuming one component of q per actuated segment
\* among them, in order, so that its pose is the one Chain.xs(q) (identity
\* base) collects after segment nb_segm - n - 1; also when the first segment
\* is Fixed.
C7_EeFrameIsXsPose ==
  (/\ call.op = "ee_frame" /\ pc = "done" /\ FitsChain
   /\ call.kind # "list"
   /\ call.n < Len(Segs)) =>
    /\ st.err = ""
    /\ st.i = Len(Segs) - call.n
    /\ \A k \in 1..st.i :
         st.reads[k] = IF Actuated(Segs[k]) THEN ActBefore(Segs, k - 1) ELSE -1
    /\ st.p[1] = PoseAfter(Segs, call, Len(Segs) - call.n)

\* C8: for a chain whose segments are all Fixed, nb_joint is 0 and
\* Chain.jacobian returns a matrix with 0 columns, for every supported layout.
C8_FixedOnlyJacobian ==
  (/\ call.op = "jacobian" /\ pc = "done"
   /\ Len(Segs) >= 1
   /\ \A k \in 1..Len(Segs) : ~Actuated(Segs[k])
   /\ call.kind = "batch"
   /\ call.layout \in {"x", "xm", "xmv"}) =>
    /\ nb_joint(Segs) = 0
    /\ result.status = "ok"
    /\ result.ret.t = "jacobian"
    /\ Len(result.ret.cols) = 0

\* C9: with the quaternion layout or a tag outside the supported set,
\* return_frame (reached from Chain.xs and Chain.ee_frame) and
\* Chain.jacobian raise NotImplementedError and never return a value.
C9_UnsupportedLayoutRaises ==
  (/\ pc = "done" /\ call.op \in {"xs", "ee_frame", "jacobian"}
   /\ st.err = ""
   /\ call.layout \in {"xq", "other"}) =>
    /\ result.status = "raise"
    /\ result.err = "NotImplementedError"

\* =============================================== properties, ChainDict
\* s without the later occurrences of its members
RECURSIVE FirstOccurrences(_)
FirstOccurrences(s) ==
  IF Len(s) = 0 THEN <<>>
  ELSE LET rest == FirstOccurrences(SubSeq(s, 1, Len(s) - 1))
       IN IF Last(s) \in Range(rest) THEN rest ELSE Append(rest, Last(s))

\* the actuated child names of all chains, in iteration order
RECURSIVE AllActuatedNames(_, _)
AllActuatedNames(cs, k) ==
  IF k = 0 THEN <<>>
  ELSE AllActuatedNames(cs, k - 1) \o ActuatedNames(cs[k].segments)

\* C2: uniqueJointNames is the first-occurrence deduplication of
\* actuatedJointNames: every actuated child name exactly once (also when a
\* name occurs twice inside one chain), in order of first appearance over
\* the chains in iteration order, and nb_joint is its length.
C2_UniqueNames ==
  ~cache.unique.none =>
    /\ cache.names.v = AllActuatedNames(chains, Len(chains))
    /\ cache.unique.v = FirstOccurrences(cache.names.v)
    /\ \A i, j \in 1..Len(cache.unique.v) :
         i # j => cache.unique.v[i] # cache.unique.v[j]
    /\ cache.nb_joints.v = Len(cache.unique.v)

\* C3: ChainDict.xs, given q of shape [batch, nb_joint] or [nb_joint], hands
\* each chain the sub-vector whose k-th entry is q at the position of the
\* chain's k-th actuated name in uniqueJointNames; chains declaring the same
\* name read the same index; the result maps every chain to its Chain.xs
\* result, or is the one chain's result when a name is given.  (Raw-frame
\* layout, so that nothing but the demultiplexing decides the outcome.)
C3_DictXsSubVectors ==
  (call.op = "dict_xs" /\ pc = "done" /\ call.layout = "f") =>
    /\ result.status = "ok"
    /\ Len(st.q_chains) = Len(chains)
    /\ \A k \in 1..Len(chains) :
         LET an == ActuatedNames(chains[k].segments)
         IN /\ Len(st.q_chains[k]) = Len(an)
            /\ \A m \in 1..Len(an) :
                 st.q_chains[k][m] = call.q[index(cache.unique.v, an[m]) + 1]
    /\ \A k1, k2 \in 1..Len(chains) :
         \A m1 \in 1..Len(st.idx_chain[k1]), m2 \in 1..Len(st.idx_chain[k2]) :
           ActuatedNames(chains[k1].segments)[m1] = ActuatedNames(chains[k2].segments)[m2]
             => st.idx_chain[k1][m1] = st.idx_chain[k2][m2]
    /\ call.name = "" =>
         /\ result.ret.t = "dict"
         /\ \A k \in 1..Len(chains) :
              Ok(result.ret.items[k]) =
                Chain_xs(chains[k].segments, SubCall(call, "xs", k, st.q_chains))
    /\ call.name # "" =>
         result = Chain_xs(chains[NameIndex(chains, call.name)].segments,
                           SubCall(call, "xs", NameIndex(chains, call.name), st.q_chains))

\* every chain keeps an actuated segment among its first nb_segm - n segments
\* (Chain.jacobian has a column to return) and repeats no joint name
JacobianPerChainReturns ==
  \A k \in 1..Len(chains) :
    LET segs == chains[k].segments
        an == ActuatedNames(segs)
    IN /\ Len(segs) - call.n >= 1
       /\ ActBefore(segs, Len(segs) - call.n) >= 1
       /\ \A i, j \in 1..Len(an) : i # j => an[i] # an[j]

\* C4: for every ChainDict, shared joint vector and truncation n,
\* ChainDict.jacobian (no name filter) returns one matrix per chain, of width
\* len(uniqueJointNames): column g is the column Chain.jacobian computed for
\* the joint named uniqueJointNames[g] when the chain owns it, and zero for
\* every joint the chain does not own.
C4_DictJacobianColumns ==
  (/\ call.op = "dict_jacobian" /\ pc = "done" /\ call.name = ""
   /\ call.kind = "batch" /\ call.layout \in {"x", "xm", "xmv"}
   /\ JacobianPerChainReturns) =>
    /\ result.status = "ok"
    /\ result.ret.t = "dict"
    /\ \A k \in 1..Len(chains) :
         LET J == Chain_jacobian(chains[k].segments,
                                 SubCall(call, "jacobian", k, st.q_chains)).ret
             an == ActuatedNames(chains[k].segments)
             M == result.ret.items[k]
         IN /\ Len(M.cols) = Len(cache.unique.v)
            /\ \A g \in 1..Len(cache.unique.v) :
                 LET own == {m \in 1..Len(J.cols) : an[m] = cache.unique.v[g]}
                 IN IF own = {}
                    THEN \A r \in 1..Len(M.cols[g]) : M.cols[g][r] = 0
                    ELSE \A m \in own : M.cols[g] = J.cols[m]

\* the mass the center of mass of the call is divided by
CallMass ==
  CASE call.op = "xs" -> mass(Segs)
    [] call.op = "dict_xs" /\ call.name = "" -> ChainDict_mass(chains)
    [] call.op = "dict_xs" /\ call.name # "" ->
         mass(chains[NameIndex(chains, call.name)].segments)

\* C10: when the total mass is zero (no segment carries a link, or all link
\* masses are 0), Chain.xs and ChainDict.xs with get_links=True surface an
\* error instead of returning a center of mass obtained by dividing by zero.
C10_ZeroMassSurfaced ==
  (/\ pc = "done" /\ call.op \in {"xs", "dict_xs"} /\ call.get_links
   /\ CallMass = 0) =>
    result.status = "raise"

\* ====================================== properties, joint vector length
\* C11: Chain.xs and Chain.jacobian report an error to the caller whenever
\* the joint vector's length differs from the chain's actuated-joint count,
\* shorter or longer; they never return a result computed from a prefix of
\* the joint vector.  Stated for chains with at least one actuated joint and
\* the flat layouts, for which a fitting joint vector is served.
C11_LengthMismatchRaises ==
  (/\ pc = "done" /\ call.op \in {"xs", "jacobian"}
   /\ call.layout \in {"x", "xm", "xmv"}
   /\ nb_joint(Segs) >= 1
   /\ Len(call.q) # nb_joint(Segs)) =>
    result.status = "raise"

\* ========================================= properties, Frame on points
\* C12: Frame.__mul__ with a tensor of points: for a batch of M transforms
\* and N points, any M and N, the result has shape M x N x 3 and entry
\* [m, n] equals rotation_m . point_n + translation_m.
C12_PointsOuterProduct ==
  (/\ pc = "done" /\ call.op = "Frame.__mul__"
   /\ call.frame.is_batch /\ call.other.rank = 2 /\ call.other.dim3) =>
    LET F == call.frame
        pts == call.other.at[1]
    IN /\ result.status = "ok"
       /\ result.ret.rank = 3
       /\ Len(result.ret.at) = Len(F.ms)
       /\ \A a \in 1..Len(F.ms) :
            /\ Len(result.ret.at[a]) = Len(pts)
            /\ \A b \in 1..Len(pts) :
                 result.ret.at[a][b] = VAdd(matvecmul(F.ms[a], pts[b]), F.ps[a])

\* ============================================= properties, stack_batch
\* C13: stack_batch, given the per-segment vectors of a chain whose last
\* member is batched, produces a [batch, len(list), dim] tensor with one row
\* per member, every unbatched member broadcast to the batch size: when only
\* the first member is unbatched, and when several leading members are (a
\* chain whose first segments are Fixed, evaluated on a batched q).
C13_StackBatchBroadcasts ==
  (/\ pc = "done" /\ call.op = "xs" /\ FitsChain
   /\ call.layout \in {"x", "xm", "xmv"}
   /\ st.err = ""
   /\ Last(st.p).batch) =>
    /\ result.status = "ok"
    /\ result.ret.t = "tensor"
    /\ result.ret.batch
    /\ Len(result.ret.rows) = Len(st.p)
    /\ \A k \in 1..Len(st.p) : result.ret.rows[k] = LayoutRow(st.p[k], call.layout)

\* ======================================= properties, memoized reads
\* C14: the memoized properties of a ChainDict give the same values whatever
\* the order of their first reads: no read of a property fails, and a read
\* of mean_pose returns one entry per name of the unique joint names, in
\* that order, also when mean_pose is the first property read after
\* construction.
C14_MeanPoseAnyOrder ==
  LET U == scan_names(chains, 1, <<>>, <<>>).unique
  IN /\ result.status # "raise"
     /\ result.ret.t = "mean_pose" =>
          result.ret.v =
            [k \in 1..Len(U) |-> Mean(Joint_limits(joint_limits_all(chains, U[k])))]
     /\ result.ret.t = "joint_limits" =>
          result.ret.v = [k \in 1..Len(U) |-> Joint_limits(joint_limits_all(chains, U[k]))]

====
